---- MODULE Spec2Model ----
(***************************************************************************)
(* Model of src/src/index.js (webxr-first-steps): the per-frame update     *)
(* onFrame (inertia filters, fire handling, projectile stepping, collision *)
(* and score), the asset-load callbacks of setupScene, the gsap tweens and *)
(* the respawn timers the collision handler starts.                        *)
(*                                                                         *)
(* Numbers.  A JavaScript Number is an IEEE-754 binary64.  The model keeps *)
(* numbers as integers counting the quantum 2^-FracBits.  Positions, times *)
(* and velocities of the game are chosen dyadic, so the code's arithmetic  *)
(* on them is exact and is modelled with exact integer arithmetic.  The    *)
(* inertia filters are modelled with rounding after every operation        *)
(* (round to nearest, ties to even) with the significand shortened from 53 *)
(* to MantissaBits bits.                                                   *)
(***************************************************************************)
EXTENDS Integers, Sequences, FiniteSets

\* ------------------------------------------------------------ bounds
FracBits == 10
MantissaBits == 4
TweenSteps == 2
MaxShots == 2
MaxFrames == 4
StartHits == 999

One == 2^FracBits

\* ------------------------------------------------- number arithmetic
Abs(x) == IF x < 0 THEN -x ELSE x

Sign(x) == IF x < 0 THEN -1 ELSE 1

Max(a, b) == IF a > b THEN a ELSE b

Min(a, b) == IF a < b THEN a ELSE b

\* the least k >= 0 with a < d * 2^(k + MantissaBits)
RECURSIVE Shift(_, _)
Shift(a, d) == IF a < d * 2^MantissaBits THEN 0 ELSE 1 + Shift(a, 2 * d)

RoundHalfEven(a, d) ==
  LET q == a \div d
      r == a % d
  IN IF 2 * r > d \/ (2 * r = d /\ q % 2 = 1) THEN q + 1 ELSE q

\* num/den quanta (den > 0) rounded to the nearest representable number
Fl(num, den) ==
  LET a == Abs(num)
      k == Shift(a, den)
  IN Sign(num) * RoundHalfEven(a, den * 2^k) * 2^k

FAdd(a, b) == Fl(a + b, 1)

FSub(a, b) == Fl(a - b, 1)

FMul(a, b) == Fl(a * b, One)

FDiv(a, b) == IF b > 0 THEN Fl(a * One, b) ELSE Fl(-(a * One), -b)

\* the decimal literal n/d as the parser rounds it
Lit(n, d) == Fl(n * One, d)

\* THREE.MathUtils.clamp(value, min, max)
Clamp(value, lo, hi) == Max(lo, Min(hi, value))

\* ------------------------------------------------------------ vectors
Vec(x, y, z) == <<x, y, z>>

VAdd(a, b) == <<a[1] + b[1], a[2] + b[2], a[3] + b[3]>>

\* v * s for a dyadic scalar s (exact)
VScale(v, s) == <<(v[1] * s) \div One, (v[2] * s) \div One, (v[3] * s) \div One>>

DistSq(a, b) ==
  (a[1] - b[1]) * (a[1] - b[1]) + (a[2] - b[2]) * (a[2] - b[2])
    + (a[3] - b[3]) * (a[3] - b[3])

\* ---------------------------------------------------------- constants
forwardVector == Vec(0, 0, -One)

bulletSpeed == 10 * One

bulletTimeToLive == One

\* blasterInertia: sensitivity 2.5, damping 8, maxTilt 0.12
blasterSensitivity == Lit(25, 10)

blasterDamping == Lit(8, 1)

blasterMaxTilt == Lit(12, 100)

\* liquidSphereInertia: sensitivity 3, spring 12, damping 4, maxTilt 0.18
liquidSensitivity == Lit(3, 1)

liquidSpring == Lit(12, 1)

liquidDamping == Lit(4, 1)

liquidMaxTilt == Lit(18, 100)

\* Math.max(delta, 0.001)
Epsilon == Lit(1, 1000)

\* the three targets of the target.glb callback
NumTargets == 3

\* distance < 1
HitRadius == One

\* score += 10
HitReward == 10

\* Math.min(9999, score), padStart(4, '0')
MaxDisplay == 9999

PadWidth == 4

\* setTimeout(..., 1000) and gsap duration 0.3 are in wall-clock time: the
\* model counts the tween time in steps of duration/TweenSteps and lets a
\* pending timer fire at any later moment. target.scale is 0, a value
\* strictly between 0 and 1, or 1: counted 0, 1, ScaleFull.
ScaleFull == 2

\* -------------------------------------------------------------- state
VARIABLES
  liquidSphereInertia,  \* [prevPos, tiltX, tiltY, tiltZ, velX, velY, velZ]
  blasterInertia,       \* [prevPos, tiltY, tiltZ]
  attached,             \* raySpace.children.includes(blasterGroup)
  blasterLoaded,        \* blaster.glb is in blasterGroup: 'bullet' exists
  targets,              \* sequence of [position, visible, scale, tweens, timers]
  objs,                 \* every bullet object created so far, by uuid
  bullets,              \* the keys of the bullets registry
  sceneBullets,         \* the bullet objects attached to the scene
  score,
  scoreText,            \* scoreText.text, a sequence of characters
  hitCount,             \* history: hit events so far
  last,                 \* history: what the latest step did
  frames                \* history: frames counted by the inertia specification

vars ==
  <<liquidSphereInertia, blasterInertia, attached, blasterLoaded, targets, objs,
    bullets, sceneBullets, score, scoreText, hitCount, last, frames>>

\* ------------------------------------------------------ score display
DigitChars == <<"0", "1", "2", "3", "4", "5", "6", "7", "8", "9">>

RECURSIVE NatToString(_)
NatToString(n) ==
  IF n < 10 THEN <<DigitChars[n + 1]>>
  ELSE NatToString(n \div 10) \o <<DigitChars[(n % 10) + 1]>>

\* Number.prototype.toString() of an integer
NumberToString(n) ==
  IF n < 0 THEN <<"-">> \o NatToString(-n) ELSE NatToString(n)

RECURSIVE PadStart(_, _, _)
PadStart(str, width, ch) ==
  IF Len(str) >= width THEN str ELSE PadStart(<<ch>> \o str, width, ch)

updateScoreDisplayUnclamped(s) == PadStart(NumberToString(s), PadWidth, "0")

updateScoreDisplay(s) ==
  LET clampedScore == Max(0, Min(MaxDisplay, s))
  IN PadStart(NumberToString(clampedScore), PadWidth, "0")

\* ------------------------------------------------------------- inputs
\* camera.getWorldPosition at setupScene and in frames without a controller
CameraHome == Vec(0, One, 0)

\* Math.random() draws, in tenths
XRandoms == {5}

ZRandoms == {0, 5}

\* Math.random() * 10 - 5
RandomX(r) == (r * 10 * One) \div 10 - 5 * One

\* -Math.random() * 5 - 5
RandomZ(r) == -((r * 5 * One) \div 10) - 5 * One

NoStep ==
  [click |-> FALSE, threw |-> FALSE, spawned |-> 0, hits |-> <<>>, lapsed |-> {}]

\* the state setupScene leaves, before any asset has loaded
Init ==
  /\ liquidSphereInertia =
       [prevPos |-> CameraHome, tiltX |-> 0, tiltY |-> 0, tiltZ |-> 0,
        velX |-> 0, velY |-> 0, velZ |-> 0]
  /\ blasterInertia = [prevPos |-> Vec(0, 0, 0), tiltY |-> 0, tiltZ |-> 0]
  /\ attached = FALSE
  /\ blasterLoaded = FALSE
  /\ targets = <<>>
  /\ objs = <<>>
  /\ bullets = {}
  /\ sceneBullets = {}
  /\ score = 0
  /\ scoreText = updateScoreDisplay(0)
  /\ hitCount = 0
  /\ last = NoStep
  /\ frames = 0

\* gltfLoader.load('assets/blaster.glb', ...): blasterGroup.add(gltf.scene)
LoadBlaster ==
  /\ ~blasterLoaded
  /\ blasterLoaded' = TRUE
  /\ last' = NoStep
  /\ UNCHANGED <<liquidSphereInertia, blasterInertia, attached, targets, objs,
                 bullets, sceneBullets, score, scoreText, hitCount, frames>>

\* a plausible slip: the targets stacked half a unit apart
TargetHeightClose(i) == (i * One) \div 2 + One

\* line 133: i * 2 + 1, for i = 0, 1, 2
TargetHeight(i) == i * 2 * One + One

NewTarget(i, rx, rz) ==
  [position |-> Vec(RandomX(rx), TargetHeight(i - 1), RandomZ(rz)),
   visible |-> TRUE, scale |-> ScaleFull, tweens |-> <<>>, timers |-> 0]

\* gltfLoader.load('assets/target.glb', ...): three targets, i = 0, 1, 2
\* the Math.random() results of the three placements, as one sequence
LoadDraws ==
  {[i \in 1..NumTargets |-> [x |-> rx, z |-> rz]] : rx \in XRandoms, rz \in ZRandoms}

LoadTargets ==
  /\ targets = <<>>
  /\ \E draws \in LoadDraws :
       targets' = [i \in 1..NumTargets |-> NewTarget(i, draws[i].x, draws[i].z)]
  /\ last' = NoStep
  /\ UNCHANGED <<liquidSphereInertia, blasterInertia, attached, blasterLoaded,
                 objs, bullets, sceneBullets, score, scoreText, hitCount, frames>>


\* ---------------------------------------------------- inertia filters
\* Vector3.divideScalar(s) is multiplyScalar(1 / s); only the x and z
\* components of the velocity are read.
VelocityOf(cur, prev, delta) ==
  LET inv == FDiv(One, Max(delta, Epsilon))
  IN [x |-> FMul(FSub(cur[1], prev[1]), inv),
      z |-> FMul(FSub(cur[3], prev[3]), inv)]

\* one axis of the spring-damper: velocity, then tilt
SpringVel(vel, tilt, target, s, d) ==
  FAdd(vel, FSub(FMul(FSub(target, tilt), s), FMul(vel, d)))

SpringTilt(tilt, vel, delta) == FAdd(tilt, FMul(vel, delta))

\* lines 171-206: the liquid spheres follow refPos
LiquidStep(liq, refPos, delta) ==
  LET refVelocity == VelocityOf(refPos, liq.prevPos, delta)
      targetX == Clamp(FMul(FMul(-refVelocity.x, liquidSensitivity), Lit(8, 10)),
                       -liquidMaxTilt, liquidMaxTilt)
      targetY == Clamp(FMul(-refVelocity.x, liquidSensitivity),
                       -liquidMaxTilt, liquidMaxTilt)
      targetZ == Clamp(FMul(FMul(refVelocity.z, liquidSensitivity), Lit(5, 10)),
                       -liquidMaxTilt, liquidMaxTilt)
      d == FMul(liquidDamping, delta)
      s == FMul(liquidSpring, delta)
      vX == SpringVel(liq.velX, liq.tiltX, targetX, s, d)
      vY == SpringVel(liq.velY, liq.tiltY, targetY, s, d)
      vZ == SpringVel(liq.velZ, liq.tiltZ, targetZ, s, d)
  IN [prevPos |-> refPos,
      velX |-> vX, velY |-> vY, velZ |-> vZ,
      tiltX |-> SpringTilt(liq.tiltX, vX, delta),
      tiltY |-> SpringTilt(liq.tiltY, vY, delta),
      tiltZ |-> SpringTilt(liq.tiltZ, vZ, delta)]

\* line 240: tilt += (target - tilt) * Math.min(1, damping * delta)
LowPass(tilt, target, delta) ==
  FAdd(tilt, FMul(FSub(target, tilt), Min(One, FMul(blasterDamping, delta))))

BlasterTargetY(velocity) ==
  Clamp(FMul(-velocity.x, blasterSensitivity), -blasterMaxTilt, blasterMaxTilt)

BlasterTargetZ(velocity) ==
  Clamp(FMul(FMul(velocity.z, blasterSensitivity), Lit(5, 10)),
        -blasterMaxTilt, blasterMaxTilt)

\* lines 216-244: prev is blasterInertia.prevPos after the attach branch
BlasterStep(bl, prev, currentPos, delta) ==
  LET velocity == VelocityOf(currentPos, prev, delta)
  IN [prevPos |-> currentPos,
      tiltY |-> LowPass(bl.tiltY, BlasterTargetY(velocity), delta),
      tiltZ |-> LowPass(bl.tiltZ, BlasterTargetZ(velocity), delta)]


\* ------------------------------------------------- projectiles, targets
\* lines 258-270: the clone of the prototype, placed at the prototype's world
\* position and flying along its world orientation (dir: forwardVector
\* rotated by the world quaternion)
NewBullet(pos, dir) ==
  [position |-> pos,
   velocity |-> VScale(dir, bulletSpeed),
   timeToLive |-> bulletTimeToLive,
   collided |-> FALSE,     \* history: removed by a hit
   startTtl |-> bulletTimeToLive,  \* history: timeToLive when its latest step began
   elapsed |-> 0,          \* history: frame deltas summed since the spawn frame,
                           \* up to the frame that removed it
   spawnDelta |-> 0,       \* history: the delta of the spawn frame
   lastDelta |-> 0]        \* history: the delta of the latest frame that held it

\* delete bullets[bullet.uuid]; scene.remove(bullet): nothing refers to the
\* object any more, its position and velocity are gone with it
Released(o) == [o EXCEPT !.position = <<>>, !.velocity = <<>>]

ShrinkTween == [kind |-> "shrink", time |-> 0, from |-> -1]

GrowTween == [kind |-> "grow", time |-> 0, from |-> -1]

\* a plausible slip: the registry entry left in place
KeepBullet(reg, b) == reg

\* lines 277 and 290: delete bullets[bullet.uuid]
RemoveBullet(reg, b) == reg \ {b}

\* a plausible slip: the object left in the scene
SceneKeep(scene, b) == scene

\* lines 278 and 291: scene.remove(bullet)
SceneRemove(scene, b) == scene \ {b}

\* a plausible slip: expiry at zero
ExpiredAtZero(ttl) == ttl <= 0

\* line 276: bullet.userData.timeToLive < 0
Expired(ttl) == ttl < 0

\* a plausible slip: the stored score clamped like the displayed one
AddScoreClamped(s) == Min(MaxDisplay, s + HitReward)

\* line 316: score += 10
AddScore(s) == s + HitReward

\* line 289: distance < 1
HitTest(targetPos, bulletPos) == DistSq(targetPos, bulletPos) < HitRadius * HitRadius

\* a plausible slip: the filter left out
AllTargets(ts) == [i \in 1..Len(ts) |-> i]

\* line 286: targets.filter((target) => target.visible), in insertion order
VisibleTargets(ts) == SelectSeq([i \in 1..Len(ts) |-> i], LAMBDA i : ts[i].visible)

\* lines 290-319, the body of the if: st is the state the frame has built so far
Hit(st, b, t) ==
  [st EXCEPT
     !.bullets = RemoveBullet(st.bullets, b),
     !.scene = SceneRemove(st.scene, b),
     !.objs[b] = [Released(st.objs[b]) EXCEPT !.collided = TRUE],
     !.targets[t].tweens = Append(st.targets[t].tweens, ShrinkTween),
     !.score = AddScore(st.score),
     !.text = updateScoreDisplay(AddScore(st.score)),
     !.hitCount = st.hitCount + 1,
     !.hits = Append(st.hits, <<b, t>>)]

\* lines 287-321: forEach over the filtered targets, cand the indices left;
\* the loop goes on after a hit, and reads the position of the bullet it holds
RECURSIVE Collide(_, _, _, _)
Collide(st, b, bulletPos, cand) ==
  IF cand = <<>> THEN st
  ELSE LET t == Head(cand)
           st1 == IF HitTest(st.targets[t].position, bulletPos)
                  THEN Hit(st, b, t) ELSE st
       IN Collide(st1, b, bulletPos, Tail(cand))

\* history: b, removed by expiry, was within the radius of a visible target
NearVisible(ts, pos) ==
  \E t \in 1..Len(ts) : ts[t].visible /\ HitTest(ts[t].position, pos)

\* the step with the expiry test after the move and the collision pass
StepBulletTestLast(st, b, delta) ==
  LET o == st.objs[b]
      moved == [o EXCEPT !.position = VAdd(o.position, VScale(o.velocity, delta)),
                         !.timeToLive = o.timeToLive - delta,
                         !.startTtl = o.timeToLive]
      st1 == [st EXCEPT !.objs[b] = moved]
      st2 == Collide(st1, b, moved.position, VisibleTargets(st1.targets))
  IN IF Expired(o.timeToLive) /\ b \in st2.bullets
     THEN [st2 EXCEPT !.bullets = RemoveBullet(st2.bullets, b),
                      !.scene = SceneRemove(st2.scene, b),
                      !.objs[b] = Released(moved)]
     ELSE st2

\* the step that returns on an expired bullet without removing it
StepBulletKeepExpired(st, b, delta) ==
  LET o == st.objs[b]
      moved == [o EXCEPT !.position = VAdd(o.position, VScale(o.velocity, delta)),
                         !.timeToLive = o.timeToLive - delta,
                         !.startTtl = o.timeToLive]
      st1 == [st EXCEPT !.objs[b] = moved]
  IN IF Expired(o.timeToLive) THEN st
     ELSE Collide(st1, b, moved.position, VisibleTargets(st1.targets))

\* lines 276-321: one bullet of the registry snapshot
StepBullet(st, b, delta) ==
  LET o == st.objs[b]
  IN IF Expired(o.timeToLive)
     THEN [st EXCEPT !.bullets = RemoveBullet(st.bullets, b),
                     !.scene = SceneRemove(st.scene, b),
                     !.objs[b] = [Released(o) EXCEPT !.startTtl = o.timeToLive],
                     !.lapsed = IF NearVisible(st.targets, o.position)
                                THEN st.lapsed \cup {b} ELSE st.lapsed]
     ELSE LET moved == [o EXCEPT !.position = VAdd(o.position, VScale(o.velocity, delta)),
                                 !.timeToLive = o.timeToLive - delta,
                                 !.startTtl = o.timeToLive]
              st1 == [st EXCEPT !.objs[b] = moved]
          IN Collide(st1, b, moved.position, VisibleTargets(st1.targets))

\* line 275: Object.values(bullets).forEach, in insertion (uuid creation) order
RECURSIVE StepBullets(_, _, _)
StepBullets(st, ids, delta) ==
  IF ids = <<>> THEN st
  ELSE StepBullets(StepBullet(st, Head(ids), delta), Tail(ids), delta)

\* a snapshot that leaves out the newest object
RegistryWithoutNewest(reg, n) == SelectSeq([i \in 1..n |-> i], LAMBDA i : i \in reg /\ i < n)

RegistryOrder(reg, n) == SelectSeq([i \in 1..n |-> i], LAMBDA i : i \in reg)

\* ---------------------------------------------------------- gsap tweens
\* the value a tween renders before it completes: strictly between its start
\* and its end, unless both are the same
Between(kind, from) ==
  IF kind = "shrink" THEN (IF from = 0 THEN 0 ELSE 1)
  ELSE (IF from = ScaleFull THEN ScaleFull ELSE 1)

\* a shrink whose onComplete schedules no respawn
RenderTweenNoRespawn(tg, w, el) ==
  LET from == IF w.from = -1 THEN tg.scale ELSE w.from
      time == w.time + el
  IN IF time >= TweenSteps
     THEN IF w.kind = "shrink"
          THEN [tg EXCEPT !.scale = 0, !.visible = FALSE]
          ELSE [tg EXCEPT !.scale = ScaleFull]
     ELSE [tg EXCEPT !.scale = Between(w.kind, from),
                     !.tweens = Append(tg.tweens, [w EXCEPT !.time = time, !.from = from])]

\* a shrink whose onComplete also moves the target to another place
RenderTweenRelocating(tg, w, el) ==
  LET from == IF w.from = -1 THEN tg.scale ELSE w.from
      time == w.time + el
      z == IF tg.position[3] = RandomZ(0) THEN RandomZ(5) ELSE RandomZ(0)
  IN IF time >= TweenSteps
     THEN IF w.kind = "shrink"
          THEN [tg EXCEPT !.scale = 0, !.visible = FALSE, !.timers = tg.timers + 1,
                          !.position = Vec(tg.position[1], tg.position[2], z)]
          ELSE [tg EXCEPT !.scale = ScaleFull]
     ELSE [tg EXCEPT !.scale = Between(w.kind, from),
                     !.tweens = Append(tg.tweens, [w EXCEPT !.time = time, !.from = from])]

\* lines 293-314: one tween of a target rendered after el steps of tween time
RenderTween(tg, w, el) ==
  LET from == IF w.from = -1 THEN tg.scale ELSE w.from
      time == w.time + el
  IN IF time >= TweenSteps
     THEN IF w.kind = "shrink"
          \* onComplete: target.visible = false; setTimeout(..., 1000)
          THEN [tg EXCEPT !.scale = 0, !.visible = FALSE, !.timers = tg.timers + 1]
          ELSE [tg EXCEPT !.scale = ScaleFull]
     ELSE [tg EXCEPT !.scale = Between(w.kind, from),
                     !.tweens = Append(tg.tweens, [w EXCEPT !.time = time, !.from = from])]

RECURSIVE RenderTweens(_, _, _)
RenderTweens(tg, ws, el) ==
  IF ws = <<>> THEN tg
  ELSE RenderTweens(RenderTween(tg, Head(ws), el), Tail(ws), el)

\* line 323: gsap.ticker.tick(delta); el steps of tween time have passed since
\* the last dispatch, el = 0: the ticker dispatches nothing
GsapTick(ts, el) ==
  IF el = 0 THEN ts
  ELSE [i \in 1..Len(ts) |-> RenderTweens([ts[i] EXCEPT !.tweens = <<>>], ts[i].tweens, el)]


\* --------------------------------------------------------------- frame
\* gamepad.getHapticActuator(0).pulse(0.6, 100): throws without an actuator
HapticPulse(ok) == IF ok THEN "done" ELSE "throws"

\* the pulse called bare: a throw leaves onFrame at line 249
HapticUncaught(ok) == IF HapticPulse(ok) = "throws" THEN "abort" ELSE "continue"

\* lines 246-250: try { pulse } catch { }: the frame goes on either way
TryHaptic(ok) == IF HapticPulse(ok) = "throws" THEN "continue" ELSE "continue"

\* line 256-257: blasterGroup.getObjectByName('bullet') is an object only
\* once blaster.glb has been added to blasterGroup
PrototypeAssumed(loaded) == TRUE

HasPrototype(loaded) == loaded

\* history: the frame's delta added to the age of every bullet that was in
\* the registry when the frame began, and noted on the one the frame spawned
Aged(os, reg, born, delta) ==
  [i \in 1..Len(os) |->
     IF i \in reg
     THEN [os[i] EXCEPT !.elapsed = os[i].elapsed + delta, !.lastDelta = delta]
     ELSE IF i \in born
     THEN [os[i] EXCEPT !.spawnDelta = delta, !.lastDelta = delta]
     ELSE os[i]]

\* onFrame(delta, time, {controllers, camera, ...}) as a function of the state
\* and the frame's inputs: delta, the right controller (present, world
\* position pos, world orientation dir of the prototype, trigger click,
\* working haptic actuator), the camera's world position cam, and el, the
\* tween time gsap's ticker measures for this tick
FrameResult(in) ==
  LET refPos == IF in.right THEN in.pos ELSE in.cam
      liq0 == LiquidStep(liquidSphereInertia, refPos, in.delta)
      attach == in.right /\ ~attached
      liq == IF attach THEN [liq0 EXCEPT !.prevPos = in.pos] ELSE liq0
      prev == IF attach THEN in.pos ELSE blasterInertia.prevPos
      bl == IF in.right
            THEN BlasterStep(blasterInertia, prev, in.pos, in.delta)
            ELSE blasterInertia
      click == in.right /\ in.click
      aborted == click /\ TryHaptic(in.haptic) = "abort"
      spawn == click /\ ~aborted /\ HasPrototype(blasterLoaded)
      id == Len(objs) + 1
      st0 == [objs |-> IF spawn THEN Append(objs, NewBullet(in.pos, in.dir)) ELSE objs,
              bullets |-> IF spawn THEN bullets \cup {id} ELSE bullets,
              scene |-> IF spawn THEN sceneBullets \cup {id} ELSE sceneBullets,
              targets |-> targets,
              score |-> score,
              text |-> scoreText,
              hitCount |-> hitCount,
              hits |-> <<>>,
              lapsed |-> {}]
      st1 == IF aborted THEN st0
             ELSE StepBullets(st0, RegistryOrder(st0.bullets, Len(st0.objs)), in.delta)
  IN [liquid |-> liq,
      blaster |-> bl,
      attached |-> attached \/ in.right,
      targets |-> IF aborted THEN st1.targets ELSE GsapTick(st1.targets, in.el),
      objs |-> Aged(st1.objs, bullets, IF spawn THEN {id} ELSE {}, in.delta),
      bullets |-> st1.bullets,
      scene |-> st1.scene,
      score |-> st1.score,
      text |-> st1.text,
      hitCount |-> st1.hitCount,
      last |-> [click |-> click,
                threw |-> click /\ HapticPulse(in.haptic) = "throws",
                spawned |-> IF spawn THEN id ELSE 0,
                hits |-> st1.hits,
                lapsed |-> st1.lapsed]]

onFrame(in) ==
  /\ (in.right /\ in.click /\ blasterLoaded) => Len(objs) < MaxShots
  /\ \E r \in {FrameResult(in)} :
        /\ liquidSphereInertia' = r.liquid
        /\ blasterInertia' = r.blaster
        /\ attached' = r.attached
        /\ targets' = r.targets
        /\ objs' = r.objs
        /\ bullets' = r.bullets
        /\ sceneBullets' = r.scene
        /\ score' = r.score
        /\ scoreText' = r.text
        /\ hitCount' = r.hitCount
        /\ last' = r.last
  /\ UNCHANGED blasterLoaded

\* lines 300-312: the setTimeout callback of target i
TimerFire(i) ==
  /\ i \in 1..Len(targets)
  /\ targets[i].timers > 0
  /\ \E rx \in XRandoms, rz \in ZRandoms :
       targets' = [targets EXCEPT
         ![i].timers = @ - 1,
         ![i].visible = TRUE,
         ![i].position = Vec(RandomX(rx), @[2], RandomZ(rz)),
         ![i].tweens = Append(@, GrowTween)]
  /\ last' = NoStep
  /\ UNCHANGED <<liquidSphereInertia, blasterInertia, attached, blasterLoaded,
                 objs, bullets, sceneBullets, score, scoreText, hitCount, frames>>

\* ------------------------------------------------------ specifications
GameDeltas == {0, One \div 2}

ControllerPositions == {Vec(0, One, 0)}

\* forwardVector.applyQuaternion(q) for the orientations the player takes
Directions == {forwardVector}

Idle(delta, el, cam) ==
  [delta |-> delta, el |-> el, right |-> FALSE, pos |-> cam, dir |-> forwardVector,
   cam |-> cam, click |-> FALSE, haptic |-> TRUE]

Held(delta, el, pos, dir, click, haptic) ==
  [delta |-> delta, el |-> el, right |-> TRUE, pos |-> pos, dir |-> dir,
   cam |-> CameraHome, click |-> click, haptic |-> haptic]

GameInputs ==
  {Idle(d, e, CameraHome) : d \in GameDeltas, e \in 0..TweenSteps}
  \cup {Held(x[1], x[2], x[3], x[4], FALSE, TRUE) :
          x \in GameDeltas \X (0..TweenSteps) \X ControllerPositions \X Directions}
  \cup {Held(x[1], x[2], x[3], x[4], TRUE, x[5]) :
          x \in GameDeltas \X (0..TweenSteps) \X ControllerPositions \X Directions \X BOOLEAN}

Next ==
  \/ \E in \in GameInputs : onFrame(in) /\ UNCHANGED frames
  \/ LoadBlaster
  \/ LoadTargets
  \/ \E i \in 1..NumTargets : TimerFire(i)

Spec == Init /\ [][Next]_vars

\* The game at rest after n hits: the assets loaded, the blaster in the
\* player's hand, every target active, no projectile in flight (the
\* projectiles of those hits are gone and not tracked).
AtRestAt(n, home) ==
  /\ liquidSphereInertia =
       [prevPos |-> home, tiltX |-> 0, tiltY |-> 0, tiltZ |-> 0,
        velX |-> 0, velY |-> 0, velZ |-> 0]
  /\ blasterInertia = [prevPos |-> home, tiltY |-> 0, tiltZ |-> 0]
  /\ attached = TRUE
  /\ blasterLoaded = TRUE
  /\ \E draws \in LoadDraws :
       targets = [i \in 1..NumTargets |-> NewTarget(i, draws[i].x, draws[i].z)]
  /\ objs = <<>>
  /\ bullets = {}
  /\ sceneBullets = {}
  /\ score = HitReward * n
  /\ scoreText = updateScoreDisplay(HitReward * n)
  /\ hitCount = n
  /\ last = NoStep
  /\ frames = 0

AtRest(n) == AtRestAt(n, CameraHome)

InitScore == AtRest(StartHits)

NextPlay ==
  \/ \E in \in GameInputs : onFrame(in) /\ UNCHANGED frames
  \/ \E i \in 1..NumTargets : TimerFire(i)

SpecScore == InitScore /\ [][NextPlay]_vars

\* line 323 in a frame in which gsap's ticker measures tween time
Tick == \E in \in GameInputs : in.el > 0 /\ onFrame(in) /\ UNCHANGED frames

\* gsap has a tween to render
TweenRunning == \E i \in 1..Len(targets) : targets[i].tweens # <<>>

InitLive == AtRest(0)

\* The render loop keeps calling onFrame while tween time passes: as long as
\* a tween is running, frames with tween time keep coming. The event loop
\* runs every timer callback that is due.
SpecLive ==
  /\ InitLive
  /\ [][NextPlay]_vars
  /\ ([]<>(~TweenRunning) \/ []<><<Tick>>_vars)
  /\ \A i \in 1..NumTargets : WF_vars(TimerFire(i))

\* a frame over which time has passed
Advance == \E in \in GameInputs : in.delta > 0 /\ onFrame(in) /\ UNCHANGED frames

\* The render loop keeps calling onFrame with delta > 0: as long as a
\* projectile is registered, such frames keep coming.
SpecFrames ==
  /\ InitLive
  /\ [][NextPlay]_vars
  /\ ([]<>(bullets = {}) \/ []<><<Advance>>_vars)

\* The player stands ten units behind the camera's home and fires from there:
\* a projectile is then over the targets' strip when its time has run out.
FarHome == Vec(0, One, 10 * One)

FarInputs ==
  {[Held(d, e, FarHome, forwardVector, c, TRUE) EXCEPT !.cam = FarHome] :
     d \in GameDeltas, e \in 0..TweenSteps, c \in BOOLEAN}

InitFar == AtRestAt(0, FarHome)

NextFar ==
  \/ \E in \in FarInputs : onFrame(in) /\ UNCHANGED frames
  \/ \E i \in 1..NumTargets : TimerFire(i)

SpecFar == InitFar /\ [][NextFar]_vars

\* The player moves the held controller by a few quanta a frame, over frames
\* of 0, 1/16, 1/8 and (a stalled frame) 1/2 second, without firing.
TiltDeltas == {0, One \div 16, One \div 8, One \div 2}

TiltPositions == {Vec(0, One, 0), Vec(1, One, 0), Vec(-8, One, 0), Vec(0, One, 8)}

TiltInputs ==
  {Held(d, 0, p, forwardVector, FALSE, TRUE) : d \in TiltDeltas, p \in TiltPositions}

NextTilt ==
  \E in \in TiltInputs :
    /\ frames < MaxFrames
    /\ onFrame(in)
    /\ frames' = frames + 1

SpecTilt == Init /\ [][NextTilt]_vars

\* frames of a session in which the right controller comes and goes: with the
\* controller the reference is its raySpace, without it the camera
TrackInputs ==
  {in \in TiltInputs : in.delta \in GameDeltas}
  \cup {Idle(d, 0, CameraHome) : d \in GameDeltas}

NextTrack ==
  \E in \in TrackInputs :
    /\ frames < MaxFrames
    /\ onFrame(in)
    /\ frames' = frames + 1

SpecTrack == Init /\ [][NextTrack]_vars


\* ------------------------------------------------------------- claims
ShrinkCount(tg) == Len(SelectSeq(tg.tweens, LAMBDA w : w.kind = "shrink"))

HitTargets(hs) == {hs[i][2] : i \in DOMAIN hs}

HitBullets(hs) == {hs[i][1] : i \in DOMAIN hs}

C2_InvisibleNeverHit ==
  [][/\ \A t \in 1..Len(targets) :
          ~targets[t].visible =>
             /\ t \notin HitTargets(last'.hits)
             /\ ShrinkCount(targets'[t]) <= ShrinkCount(targets[t])
     /\ (\A t \in 1..Len(targets) : ~targets[t].visible) =>
          /\ score' = score
          /\ \A b \in bullets \ bullets' : ~objs'[b].collided]_vars

\* a registered projectile lies within the hit radius of an invisible target
\* after the frame that moved it there
C2_Witness ==
  \E b \in bullets, t \in 1..Len(targets) :
    /\ ~targets[t].visible
    /\ HitTest(targets[t].position, objs[b].position)
    /\ objs[b].timeToLive < bulletTimeToLive

Unhit == {b \in 1..Len(objs) : ~objs[b].collided}

\* C3 as stated: a projectile is in the registry iff its timeToLive is >= 0
\* and it has not collided.
C3_Original ==
  \A b \in 1..Len(objs) :
    b \in bullets <=> (objs[b].timeToLive >= 0 /\ ~objs[b].collided)

\* C3, amended: a projectile is in the registry iff it has not collided and
\* its timeToLive was >= 0 when its latest step began; the step's decrement
\* may leave it negative at the frame boundary, by at most the frame's delta.
C3_RegistryIffAliveAtStepStart ==
  \A b \in 1..Len(objs) :
    /\ b \in bullets <=> (objs[b].startTtl >= 0 /\ ~objs[b].collided)
    /\ b \in bullets => objs[b].timeToLive = objs[b].startTtl - objs[b].lastDelta
    /\ (b \notin bullets /\ ~objs[b].collided) => objs[b].timeToLive < 0

\* a registered projectile whose timeToLive is negative at a frame boundary
C3_Witness == \E b \in bullets : objs[b].timeToLive < 0 /\ objs[b].startTtl >= 0

\* C5: the stored score is 10 times the number of hit events, every frame
\* adds 10 per hit event whatever the score, and the score never decreases.
C5_ScoreIsTenTimesHits ==
  [][/\ hitCount' = hitCount + Len(last'.hits)
     /\ score' = HitReward * hitCount'
     /\ score' >= score]_vars

\* the stored score has passed 9999
C5_Witness == score > MaxDisplay /\ last.hits # <<>>

\* the four decimal digits of n, for 0 <= n <= 9999
FourDigits(n) ==
  <<DigitChars[((n \div 1000) % 10) + 1], DigitChars[((n \div 100) % 10) + 1],
    DigitChars[((n \div 10) % 10) + 1], DigitChars[(n % 10) + 1]>>

\* C6: the score text is the stored score clamped to [0, 9999], as four
\* digits; 15000 shows "9999" and a negative score "0000".
C6_TextIsClampedPaddedScore ==
  /\ scoreText = FourDigits(IF score < 0 THEN 0 ELSE IF score > 9999 THEN 9999 ELSE score)
  /\ updateScoreDisplay(15000) = <<"9", "9", "9", "9">>
  /\ updateScoreDisplay(-5) = <<"0", "0", "0", "0">>
  /\ updateScoreDisplay(7) = <<"0", "0", "0", "7">>

\* a hit has taken the stored score past 9999 and the text shows "9999"
C6_Witness ==
  /\ score > MaxDisplay
  /\ last.hits # <<>>
  /\ scoreText = <<"9", "9", "9", "9">>

\* C7 as stated: a projectile that never collides is registered at every
\* frame boundary at which the time elapsed since its spawn is <= T and
\* absent at every one at which it is > T (elapsed stops at the removal).
C7_Original ==
  \A b \in Unhit :
    /\ b \in bullets => objs[b].elapsed <= bulletTimeToLive
    /\ b \notin bullets => objs[b].elapsed > bulletTimeToLive

\* the time a projectile had consumed when its latest frame began: the frame
\* deltas since its spawn, with the spawn frame's and without the latest one
ConsumedBefore(o) == o.spawnDelta + o.elapsed - o.lastDelta

\* C7, amended: a projectile that never collides is registered at a frame
\* boundary iff the time it had consumed when that frame began, the spawn
\* frame's delta included, is <= T; once absent it stays absent.
C7_RegisteredIffConsumedWithinT ==
  /\ \A b \in Unhit :
       b \in bullets <=> ConsumedBefore(objs[b]) <= bulletTimeToLive
  /\ \A b \in bullets :
       objs[b].timeToLive = bulletTimeToLive - objs[b].spawnDelta - objs[b].elapsed

\* a projectile still registered although more than T has elapsed since its
\* spawn, and one removed when no more than T had elapsed
C7_Witness ==
  /\ \E b \in bullets : objs[b].elapsed > bulletTimeToLive
  /\ \E b \in Unhit : b \notin bullets /\ objs[b].elapsed <= bulletTimeToLive

\* the state a frame with input in leads to, apart from the frame's own log
SameOutcome(r) ==
  /\ liquidSphereInertia' = r.liquid
  /\ blasterInertia' = r.blaster
  /\ attached' = r.attached
  /\ targets' = r.targets
  /\ objs' = r.objs
  /\ bullets' = r.bullets
  /\ sceneBullets' = r.scene
  /\ score' = r.score
  /\ scoreText' = r.text
  /\ hitCount' = r.hitCount
  /\ last'.hits = r.last.hits

\* C8: a frame with a trigger click while the blaster model is not loaded
\* spawns nothing (no new projectile, registry and scene gain nothing) and
\* ends in the state the same frame without the click ends in.
C8_ClickWithoutPrototypeIsNoOp ==
  [][(~blasterLoaded /\ last'.click) =>
       /\ last'.spawned = 0
       /\ Len(objs') = Len(objs)
       /\ bullets' \subseteq bullets
       /\ sceneBullets' \subseteq sceneBullets
       /\ \A in \in GameInputs :
            (in.right /\ in.click /\ onFrame(in)) =>
               SameOutcome(FrameResult([in EXCEPT !.click = FALSE]))]_vars

\* a click frame has run before the blaster model was loaded
C8_Witness ==
  /\ ~blasterLoaded
  /\ last.click
  /\ last.spawned = 0
  /\ attached

\* C9: a frame whose haptic pulse throws ends in the state the same frame
\* with a working actuator ends in: with the model loaded the projectile is
\* spawned, registered (unless this frame's collision pass consumes it) and
\* stepped, and the projectiles in flight are stepped.
C9_HapticThrowSwallowed ==
  [][last'.threw =>
       /\ blasterLoaded =>
            /\ last'.spawned = Len(objs) + 1
            /\ \/ last'.spawned \in bullets' \cap sceneBullets'
               \/ last'.spawned \in HitBullets(last'.hits)
       /\ \A in \in GameInputs :
            (in.right /\ in.click /\ ~in.haptic /\ onFrame(in)) =>
               /\ SameOutcome(FrameResult([in EXCEPT !.haptic = TRUE]))
               /\ last'.spawned = FrameResult([in EXCEPT !.haptic = TRUE]).last.spawned
               /\ \A b \in bullets \cap bullets' :
                    objs'[b].timeToLive = objs[b].timeToLive - in.delta
               /\ blasterLoaded =>
                    objs'[last'.spawned].timeToLive = bulletTimeToLive - in.delta]_vars

\* the pulse threw in a frame that spawned a projectile and stepped it along
\* with one already in flight
C9_Witness ==
  /\ last.threw
  /\ last.spawned \in bullets
  /\ objs[last.spawned].timeToLive < bulletTimeToLive
  /\ \E b \in bullets : b # last.spawned /\ objs[b].lastDelta > 0

\* x lies between a and b, ends included
Within(x, a, b) == Min(a, b) <= x /\ x <= Max(a, b)

\* C10 as stated: after every frame the blaster's tiltY and tiltZ are within
\* [-maxTilt, maxTilt], and each lies between its value before the frame and
\* the frame's clamped target.
C10_Original ==
  [][\A in \in TiltInputs :
       onFrame(in) =>
         LET prev == IF attached THEN blasterInertia.prevPos ELSE in.pos
             velocity == VelocityOf(in.pos, prev, in.delta)
         IN /\ Abs(blasterInertia'.tiltY) <= blasterMaxTilt
            /\ Abs(blasterInertia'.tiltZ) <= blasterMaxTilt
            /\ Within(blasterInertia'.tiltY, blasterInertia.tiltY, BlasterTargetY(velocity))
            /\ Within(blasterInertia'.tiltZ, blasterInertia.tiltZ, BlasterTargetZ(velocity))]_vars

\* Active: visible, at full scale, no tween running, no respawn pending
Active(tg) ==
  tg.visible /\ tg.scale = ScaleFull /\ tg.tweens = <<>> /\ tg.timers = 0

WasHit(i) == i \in HitTargets(last.hits)

Hidden(i) == i <= Len(targets) /\ ~targets[i].visible

C10_TiltOutOfRange ==
  \/ Abs(blasterInertia.tiltY) > blasterMaxTilt
  \/ Abs(blasterInertia.tiltZ) > blasterMaxTilt

\* C11 as stated: after every frame the liquid's tiltX, tiltY and tiltZ are
\* within [-maxTilt, maxTilt].
C11_Original ==
  /\ Abs(liquidSphereInertia.tiltX) <= liquidMaxTilt
  /\ Abs(liquidSphereInertia.tiltY) <= liquidMaxTilt
  /\ Abs(liquidSphereInertia.tiltZ) <= liquidMaxTilt

\* the liquid's tilt has left the range by more than a rounding step: it is
\* beyond maxTilt by over a tenth of maxTilt
C11_TiltFarOutOfRange ==
  \/ 10 * Abs(liquidSphereInertia.tiltX) > 11 * liquidMaxTilt
  \/ 10 * Abs(liquidSphereInertia.tiltY) > 11 * liquidMaxTilt
  \/ 10 * Abs(liquidSphereInertia.tiltZ) > 11 * liquidMaxTilt

\* C12: in a frame, a projectile whose timeToLive is negative when the frame
\* begins leaves the registry and the scene without a collision test: it is
\* in no hit event, is not marked collided, and the frame's score change is
\* 10 per hit event of the other projectiles.
C12_ExpiryBeforeAdvance ==
  [][(\E in \in FarInputs : onFrame(in)) =>
       /\ \A b \in bullets :
            objs[b].timeToLive < 0 =>
              /\ b \notin bullets'
              /\ b \notin sceneBullets'
              /\ ~objs'[b].collided
              /\ b \notin HitBullets(last'.hits)
       /\ score' = score + HitReward * Len(last'.hits)
       /\ \A k \in 1..Len(last'.hits) : objs[last'.hits[k][1]].timeToLive >= 0
                                          \/ last'.hits[k][1] > Len(objs)]_vars

\* a frame has removed an expired projectile that lay within the hit radius
\* of a visible target, and the score is what it was after the one hit before
C12_Witness ==
  /\ last.lapsed # {}
  /\ last.hits = <<>>
  /\ score = HitReward * hitCount
  /\ \A b \in last.lapsed : ~objs[b].collided /\ b \notin bullets

\* running tweens of one kind on a target
Running(tg, kind) == {k \in 1..Len(tg.tweens) : tg.tweens[k].kind = kind}

Growing(tg) == Running(tg, "grow") # {}

Shrinking(tg) == Running(tg, "shrink") # {}

\* C13 as stated: every hit of a frame lands on a target that, when the frame
\* began, was visible and had no grow animation running (it was Active or
\* Shrinking, not Hidden and not Growing).
C13_Original ==
  [][\A t \in HitTargets(last'.hits) :
       targets[t].visible /\ ~Growing(targets[t])]_vars

\* a hit has landed on a target whose grow animation is still running
C13_HitWhileGrowing ==
  \E t \in HitTargets(last.hits) :
    /\ Growing(targets[t])
    /\ Shrinking(targets[t])
    /\ targets[t].visible

\* the respawn cycles in progress on a target: running shrink animations,
\* pending respawn timers and running grow animations
CyclesInProgress(tg) ==
  Cardinality(Running(tg, "shrink")) + tg.timers + Cardinality(Running(tg, "grow"))

\* C14 as stated: at any time a target has at most one running shrink
\* animation, pending respawn timer or running grow animation.
C14_Original == \A t \in 1..Len(targets) : CyclesInProgress(targets[t]) <= 1

\* two respawn timers are pending for one target after two hits
C14_TwoTimersPending ==
  \E t \in 1..Len(targets) : targets[t].timers >= 2 /\ hitCount >= 2

\* C15 as stated: a target's position changes only in a step in which the
\* target goes from visible to invisible (shrink complete), and the step in
\* which a respawn timer fires leaves the position unchanged.
C15_Original ==
  [][\A t \in 1..Len(targets) :
       /\ targets'[t].position # targets[t].position =>
            targets[t].visible /\ ~targets'[t].visible
       /\ targets'[t].timers < targets[t].timers =>
            targets'[t].position = targets[t].position]_vars

\* C15, amended: the step in which a target goes from visible to invisible
\* (shrink complete) schedules the respawn timer and leaves the position
\* unchanged; a target's position changes only in the step in which a respawn
\* timer fires, which also sets visible = true and starts the grow animation.
C15_RelocatedOnDelayElapse ==
  [][\A t \in 1..Len(targets) :
       /\ (targets[t].visible /\ ~targets'[t].visible) =>
            /\ targets'[t].position = targets[t].position
            /\ targets'[t].timers > targets[t].timers
       /\ targets'[t].position # targets[t].position =>
            /\ targets'[t].timers = targets[t].timers - 1
            /\ targets'[t].visible
            /\ Len(targets'[t].tweens) = Len(targets[t].tweens) + 1
            /\ targets'[t].tweens[Len(targets'[t].tweens)] = GrowTween
            /\ targets'[t].position[2] = targets[t].position[2]]_vars

\* a respawn timer has just fired and moved the target away from the line
\* the targets were loaded on
C15_Witness ==
  \E t, u \in 1..Len(targets) :
    /\ targets[t].position[3] # targets[u].position[3]
    /\ targets[t].visible
    /\ targets[t].scale = 0
    /\ targets[t].tweens = <<GrowTween>>
    /\ hitCount > 0

\* where the frame with input in puts projectile b, whether b is in the
\* registry when the frame begins or is the one the frame spawns
SteppedTo(b, in) ==
  IF b <= Len(objs)
  THEN VAdd(objs[b].position, VScale(objs[b].velocity, in.delta))
  ELSE VAdd(in.pos, VScale(VScale(in.dir, bulletSpeed), in.delta))

\* the projectiles the frame with input in steps: the ones registered and
\* not expired when it begins, and the one it spawns
SteppedIn(in) ==
  {b \in bullets : objs[b].timeToLive >= 0}
    \cup (IF in.right /\ in.click /\ blasterLoaded THEN {Len(objs) + 1} ELSE {})

\* C16: in one frame the projectile the frame spawns is advanced by
\* velocity * delta, has its timeToLive decremented by delta and is
\* collision-tested like the ones in flight; the collision pass sees the
\* targets' visibility as it was when the frame began, tween completions
\* being applied after it; and the inertia states are updated by the frame.
C16_StagesInOrder ==
  [][\A in \in GameInputs :
       onFrame(in) =>
         /\ \A b \in SteppedIn(in) :
              /\ objs'[b].timeToLive =
                   (IF b <= Len(objs) THEN objs[b].timeToLive ELSE bulletTimeToLive) - in.delta
              /\ b \in bullets' => objs'[b].position = SteppedTo(b, in)
              /\ \A t \in 1..Len(targets) :
                   (targets[t].visible /\ HitTest(targets[t].position, SteppedTo(b, in)))
                     <=> (\E k \in 1..Len(last'.hits) : last'.hits[k] = <<b, t>>)
         /\ score' = score + HitReward * Len(last'.hits)
         /\ liquidSphereInertia'.prevPos = (IF in.right THEN in.pos ELSE in.cam)
         /\ in.right => blasterInertia'.prevPos = in.pos]_vars

\* the projectile spawned in the frame has hit a target in that same frame,
\* and the frame's tween tick has then completed the target's earlier shrink
C16_Witness ==
  /\ last.spawned \in HitBullets(last.hits)
  /\ \E t \in HitTargets(last.hits) : ~targets[t].visible /\ Shrinking(targets[t])

\* C17: at every frame boundary the registry holds exactly the projectiles
\* attached to the scene, and no removed projectile is in either.
C17_RegistryIffInScene ==
  /\ bullets = sceneBullets
  /\ bullets \subseteq 1..Len(objs)
  /\ \A b \in 1..Len(objs) : objs[b].collided => b \notin bullets \cup sceneBullets

\* of the projectiles spawned, one has been removed by a hit and one by
\* expiry, and neither is registered or attached
C17_Witness ==
  /\ \E b \in 1..Len(objs) : objs[b].collided /\ b \notin sceneBullets
  /\ \E b \in 1..Len(objs) :
       ~objs[b].collided /\ b \notin bullets /\ b \notin sceneBullets

Registered(b) == b \in bullets

\* C18: while frames with delta > 0 keep occurring, every registered
\* projectile is eventually out of the registry: every frame removes the
\* registered projectiles whose timeToLive is negative and takes its delta
\* off the timeToLive of the others it keeps, and a projectile that has left
\* the registry never returns to it.
C18_EveryProjectileRemoved ==
  /\ \A b \in 1..MaxShots : Registered(b) ~> ~Registered(b)
  /\ [][\A b \in 1..Len(objs) : ~Registered(b) => b \notin bullets']_vars
  /\ [][\A in \in GameInputs :
         onFrame(in) =>
           \A b \in bullets :
             /\ objs[b].timeToLive < 0 => b \notin bullets'
             /\ b \in bullets' => objs'[b].timeToLive = objs[b].timeToLive - in.delta]_vars

\* one projectile has left the registry by expiry and one by a hit
C18_Witness ==
  /\ \E b \in 1..Len(objs) :
       ~objs[b].collided /\ ~Registered(b) /\ objs[b].timeToLive < 0
  /\ \E b \in 1..Len(objs) : objs[b].collided /\ ~Registered(b)

\* lines 172-176: the position the frame samples for the liquid
RefPos(in) == IF in.right THEN in.pos ELSE in.cam

\* C19 as stated: every frame sets both previous positions to a position
\* sampled in that frame, whether or not the right controller is present: the
\* liquid's to the reference position, and, once the blaster is attached, the
\* blaster's to the controller position or, without the controller, the
\* fallback reference.
C19_Original ==
  [][\A in \in TrackInputs :
       onFrame(in) =>
         /\ liquidSphereInertia'.prevPos = RefPos(in)
         /\ attached => blasterInertia'.prevPos = RefPos(in)]_vars

\* the blaster is attached and its previous position is older than the last
\* frame: the last frame sampled the camera and the blaster kept the
\* controller position of an earlier frame
C19_StaleBlasterSample ==
  /\ attached
  /\ frames >= 2
  /\ liquidSphereInertia.prevPos = CameraHome
  /\ blasterInertia.prevPos \in TiltPositions
  /\ blasterInertia.prevPos # liquidSphereInertia.prevPos

\* C20 as stated: in every step that changes a target's position (its x or
\* z; y is kept), the target's visible flag was false before the step.
C20_Original ==
  [][\A t \in 1..Len(targets) :
       (targets'[t].position[1] # targets[t].position[1]
          \/ targets'[t].position[3] # targets[t].position[3])
         => ~targets[t].visible]_vars

\* a target on which two respawn timers have fired: it is visible and two
\* grow animations run on it, the second timer having set its position
\* after the first had made it visible
C20_SecondRespawnWhileVisible ==
  \E t \in 1..Len(targets) :
    /\ targets[t].visible
    /\ targets[t].timers = 0
    /\ Cardinality(Running(targets[t], "grow")) >= 2

====
